---- MODULE Spec2Model ----
(***************************************************************************)
(* Model of the two command-line utilities of verdaccio-offline:           *)
(*   - the Batch Publisher (src/publish.cjs), and                          *)
(*   - the Dependency Snapshotter (src/unnamed/part_000).                  *)
(* Strings that the code inspects character by character (file names,      *)
(* package names, versions) are sequences of one-character strings.        *)
(***************************************************************************)
EXTENDS Integers, Sequences, FiniteSets, TLC

(***************************************************************************)
(* State: the codec harness, the Publisher, the Snapshotter                *)
(***************************************************************************)
VARIABLES cname, cversion, cinfo, cfiles, cpc

codecVars == <<cname, cversion, cinfo, cfiles, cpc>>

VARIABLES argsGiven, tgzDirExists, dirList, registryContents, registry0, reliable,
          ppc, files, i, successCount, failureCount, skippedCount,
          packageInfo, isPublished, run, plog,
          outcomes, prevOutcomes, publishCalls

pubVars == <<argsGiven, tgzDirExists, dirList, registryContents, registry0, reliable,
             ppc, files, i, successCount, failureCount, skippedCount,
             packageInfo, isPublished, run, plog,
             outcomes, prevOutcomes, publishCalls>>

\* the part of the state the environment owns
pubEnv == <<argsGiven, tgzDirExists, dirList, registry0, reliable>>

VARIABLES mode, fs, rootExists, maxDepth, pkgJson,
          outDir, outDirExists, errorLog, spc,
          stack, processedPackages, result, foundDepth, examined, depthStops,
          uniquePackages, summary, index, snapSuccessCount, failCount, snapSkippedCount,
          packCalls

\* the part of the state the environment owns
snapEnv == <<mode, fs, rootExists, maxDepth, pkgJson>>

walkVars == <<stack, processedPackages, result, foundDepth, examined, depthStops>>

packVars == <<uniquePackages, summary, index, snapSuccessCount, failCount, snapSkippedCount,
              packCalls>>

snapVars == <<snapEnv, outDir, outDirExists, errorLog, spc, walkVars, packVars>>

vars == <<codecVars, pubVars, snapVars>>

(***************************************************************************)
(* Characters and JavaScript string primitives                             *)
(***************************************************************************)
Digit == {"0", "1", "2", "3", "4", "5", "6", "7", "8", "9"}

Letter == {"a", "b", "c", "d", "e", "f", "g", "h", "i", "j", "k", "l", "m",
           "n", "o", "p", "q", "r", "s", "t", "u", "v", "w", "x", "y", "z",
           "A", "B", "C", "D", "E", "F", "G", "H", "I", "J", "K", "L", "M",
           "N", "O", "P", "Q", "R", "S", "T", "U", "V", "W", "X", "Y", "Z"}

\* the character class [a-zA-Z0-9.] of the version pattern
TagChar == Letter \cup Digit \cup {"."}

TGZ == <<".", "t", "g", "z">>

Null == [null |-> TRUE]

\* s.substring(from) with a 1-based index
Tail2(s, from) == SubSeq(s, from, Len(s))

\* s.endsWith(suffix)
EndsWith(s, suffix) ==
    /\ Len(s) >= Len(suffix)
    /\ SubSeq(s, Len(s) - Len(suffix) + 1, Len(s)) = suffix

\* s.includes(c) for a single character c
Includes(s, c) == \E k \in 1..Len(s) : s[k] = c

\* s.indexOf(c), 1-based; 0 when c does not occur
IndexOf(s, c) ==
    IF Includes(s, c)
    THEN CHOOSE k \in 1..Len(s) : s[k] = c /\ \A m \in 1..(k - 1) : s[m] # c
    ELSE 0

\* s.replace(c, r) with a string pattern: only the first occurrence is replaced
ReplaceFirst(s, c, r) ==
    LET k == IndexOf(s, c)
    IN IF k = 0 THEN s ELSE SubSeq(s, 1, k - 1) \o r \o Tail2(s, k + 1)

\* s.split(c)[0]
SplitHead(s, c) ==
    LET k == IndexOf(s, c) IN IF k = 0 THEN s ELSE SubSeq(s, 1, k - 1)

\* s.split(c).slice(1).join(c): everything after the first c
SplitRest(s, c) == Tail2(s, IndexOf(s, c) + 1)

\* s.split(c)[1]: the segment between the first and the second c
SplitSecond(s, c) == SplitHead(SplitRest(s, c), c)

\* ^\d+$
IsDigits(s) == Len(s) >= 1 /\ \A k \in 1..Len(s) : s[k] \in Digit

\* ^\d+\.\d+\.\d+$
IsTriple(s) ==
    \E p \in 2..(Len(s) - 3) : \E q \in (p + 2)..(Len(s) - 1) :
        /\ s[p] = "." /\ s[q] = "."
        /\ IsDigits(SubSeq(s, 1, p - 1))
        /\ IsDigits(SubSeq(s, p + 1, q - 1))
        /\ IsDigits(Tail2(s, q + 1))

\* ^[a-zA-Z0-9.]+$
IsTag(s) == Len(s) >= 1 /\ \A k \in 1..Len(s) : s[k] \in TagChar

\* ^\d+\.\d+\.\d+(?:-[a-zA-Z0-9.]+)?$
IsVersion(s) ==
    \/ IsTriple(s)
    \/ \E h \in 1..Len(s) :
          /\ s[h] = "-"
          /\ IsTriple(SubSeq(s, 1, h - 1))
          /\ IsTag(Tail2(s, h + 1))

\* baseName.match(/-(\d+\.\d+\.\d+(?:-[a-zA-Z0-9.]+)?)$/): the set of
\* positions of a '-' from which the pattern matches up to the end
MatchStarts(baseName) ==
    {p \in 1..Len(baseName) :
        baseName[p] = "-" /\ IsVersion(Tail2(baseName, p + 1))}

Min(S) == CHOOSE x \in S : \A y \in S : x <= y

\* a pattern without the optional prerelease group
MatchVersionTripleOnly(baseName) ==
    LET S == {p \in 1..Len(baseName) :
                 baseName[p] = "-" /\ IsTriple(Tail2(baseName, p + 1))}
    IN IF S = {} THEN Null ELSE [v |-> Tail2(baseName, Min(S) + 1)]

\* the regular expression engine reports the leftmost match
MatchVersion(baseName) ==
    LET S == MatchStarts(baseName)
    IN IF S = {} THEN Null ELSE [v |-> Tail2(baseName, Min(S) + 1)]

(***************************************************************************)
(* Filename convention codec                                               *)
(***************************************************************************)
\* publish.cjs: extractPackageInfo
ExtractPackageInfo(tgzFileName) ==
    LET baseName == IF EndsWith(tgzFileName, TGZ)
                    THEN SubSeq(tgzFileName, 1, Len(tgzFileName) - 4)
                    ELSE tgzFileName
        versionMatch == MatchVersion(baseName)
    IN IF versionMatch = Null THEN Null
       ELSE LET version == versionMatch.v
                nameWithHyphen == SubSeq(baseName, 1, Len(baseName) - Len(version) - 1)
                name == IF /\ Includes(nameWithHyphen, "-")
                           /\ ~Includes(SplitHead(nameWithHyphen, "-"), ".")
                        THEN <<"@">> \o SplitHead(nameWithHyphen, "-") \o <<"/">>
                                     \o SplitRest(nameWithHyphen, "-")
                        ELSE nameWithHyphen
            IN [name |-> name, version |-> version]

\* snapshotter: getPossiblePackageFilenames
GetPossiblePackageFilenames(name, version) ==
    LET normalizedName == ReplaceFirst(ReplaceFirst(name, "@", <<>>), "/", <<"-">>)
        nameWithoutScope == IF Includes(name, "/") THEN SplitSecond(name, "/") ELSE name
    IN << normalizedName \o <<"-">> \o version \o TGZ,
          nameWithoutScope \o <<"-">> \o version \o TGZ,
          ReplaceFirst(ReplaceFirst(name, "@", <<>>), "/", <<"-">>) \o <<"-">> \o version \o TGZ >>

(***************************************************************************)
(* Codec checked as a pure function: the inputs are drawn by CodecInit     *)
(***************************************************************************)
MaxNameLen == 6
MaxTagLen == 1

CodecAlphabet == {"a", "1", "-", "."}
CodecTagChars == {"a", "1", "."}
CodecDigits == {"1"}

SeqsUpTo(S, n) == UNION {[1..m -> S] : m \in 1..n}

CodecNames == SeqsUpTo(CodecAlphabet, MaxNameLen)

CodecTriples == {<<a, ".", b, ".", c>> : a \in CodecDigits, b \in CodecDigits, c \in CodecDigits}

CodecVersions ==
    CodecTriples \cup {t \o <<"-">> \o g : t \in CodecTriples, g \in SeqsUpTo(CodecTagChars, MaxTagLen)}

\* the archive file name <name>-<version>.tgz
ArchiveName(name, version) == name \o <<"-">> \o version \o TGZ

\* the codec harness at rest
CodecIdle ==
    /\ cname = <<>> /\ cversion = <<>> /\ cinfo = Null /\ cfiles = <<>> /\ cpc = "idle"

CodecInit ==
    /\ cname \in CodecNames
    /\ cversion \in CodecVersions
    /\ cinfo = Null
    /\ cfiles = <<>>
    /\ cpc = "input"

Decode ==
    /\ cpc = "input"
    /\ cinfo' = ExtractPackageInfo(ArchiveName(cname, cversion))
    /\ cpc' = "decoded"
    /\ UNCHANGED <<pubVars, snapVars, cname, cversion, cfiles>>

Encode ==
    /\ cpc = "decoded"
    /\ cinfo # Null
    /\ cfiles' = GetPossiblePackageFilenames(cinfo.name, cinfo.version)
    /\ cpc' = "encoded"
    /\ UNCHANGED <<pubVars, snapVars, cname, cversion, cinfo>>

CodecNext == Decode \/ Encode


(***************************************************************************)
(* Batch Publisher (src/publish.cjs)                                       *)
(***************************************************************************)
MaxFiles == 3
MaxRuns == 2

Id(name, version) == [name |-> name, version |-> version]

V100 == <<"1", ".", "0", ".", "0">>
V234 == <<"2", ".", "3", ".", "4">>
V200 == <<"2", ".", "0", ".", "0">>

LeftPad == <<"l", "e", "f", "t", "-", "p", "a", "d">>
ScopeUtils == <<"@", "s", "c", "o", "p", "e", "/", "u", "t", "i", "l", "s">>
Ms == <<"m", "s">>

\* what the archive directory may hold: a file name and the identity packed
\* inside the file (Null: the file is no package archive)
LeftPadTgz == [file |-> ArchiveName(LeftPad, V100), real |-> Id(LeftPad, V100)]

AtScopeUtilsTgz ==
    [file |-> ArchiveName(<<"@", "s", "c", "o", "p", "e", "-", "u", "t", "i", "l", "s">>, V234),
     real |-> Id(ScopeUtils, V234)]

MsTgz == [file |-> ArchiveName(Ms, V200), real |-> Id(Ms, V200)]

NotesTgz == [file |-> <<"n", "o", "t", "e", "s">> \o TGZ, real |-> Null]

ReadmeMd == [file |-> <<"R", "E", "A", "D", "M", "E", ".", "m", "d">>, real |-> Null]

DirPool == {LeftPadTgz, AtScopeUtilsTgz, MsTgz, NotesTgz, ReadmeMd}

RegistryPool == {Id(LeftPad, V100), Id(ScopeUtils, V234), Id(Ms, V200)}

\* directory listings: entry names are distinct
DirListings ==
    {<<>>} \cup {d \in SeqsUpTo(DirPool, MaxFiles) :
                    \A a \in 1..Len(d) : \A b \in 1..Len(d) : a # b => d[a].file # d[b].file}

\* the outcomes an external command can have: with a reliable registry a
\* command fails only for what the registry holds
Faults == IF reliable THEN {FALSE} ELSE BOOLEAN

RECURSIVE FilterTgz(_)
\* fs.readdirSync(tgzDir).filter(file => file.endsWith('.tgz'))
FilterTgz(d) ==
    IF d = <<>> THEN <<>>
    ELSE IF EndsWith(Head(d).file, TGZ)
         THEN <<Head(d)>> \o FilterTgz(Tail(d))
         ELSE FilterTgz(Tail(d))

\* isPackagePublished: npm view prints the version when the registry holds
\* name@version; a failed command is caught and answers false
IsPackagePublished(packageName, version, fault) ==
    /\ ~fault
    /\ Id(packageName, version) \in registryContents

\* npm publish <file>: succeeds when the file is a package archive whose
\* identity the registry does not hold yet
PublishSucceeds(file, fault) ==
    /\ ~fault
    /\ file.real # Null
    /\ file.real \notin registryContents

\* the Publisher not started
PubIdle ==
    /\ argsGiven = FALSE /\ tgzDirExists = FALSE /\ dirList = <<>>
    /\ registry0 = {} /\ reliable = TRUE /\ registryContents = {}
    /\ ppc = "idle" /\ files = <<>> /\ i = 1
    /\ successCount = 0 /\ failureCount = 0 /\ skippedCount = 0
    /\ packageInfo = Null /\ isPublished = FALSE /\ run = 1 /\ plog = <<>>
    /\ outcomes = <<>> /\ prevOutcomes = <<>> /\ publishCalls = <<>>

PubInit ==
    /\ \/ /\ argsGiven = FALSE /\ tgzDirExists = FALSE /\ dirList = <<>>
          /\ registry0 = {} /\ reliable = TRUE
       \/ /\ argsGiven = TRUE /\ tgzDirExists = FALSE /\ dirList = <<>>
          /\ registry0 = {} /\ reliable = TRUE
       \/ /\ argsGiven = TRUE /\ tgzDirExists = TRUE
          /\ dirList \in DirListings
          /\ registry0 \in SUBSET RegistryPool
          /\ reliable \in BOOLEAN
    /\ registryContents = registry0
    /\ ppc = "start"
    /\ files = <<>>
    /\ i = 1
    /\ successCount = 0 /\ failureCount = 0 /\ skippedCount = 0
    /\ packageInfo = Null
    /\ isPublished = FALSE
    /\ run = 1
    /\ plog = <<>>
    /\ outcomes = <<>> /\ prevOutcomes = <<>> /\ publishCalls = <<>>

\* lines 13-24: argument check, then the log file is truncated
Start ==
    /\ ppc = "start"
    /\ IF ~argsGiven
       THEN ppc' = "exit1" /\ plog' = plog
       ELSE ppc' = "main" /\ plog' = <<"header">>
    /\ UNCHANGED <<codecVars, snapVars, pubEnv, registryContents, files, i, successCount, failureCount,
                   skippedCount, packageInfo, isPublished, run,
                   outcomes, prevOutcomes, publishCalls>>

\* main, lines 80-99: directory check, listing, empty check, counters
MainEnter ==
    /\ ppc = "main"
    /\ IF ~tgzDirExists
       THEN /\ ppc' = "exit1" /\ plog' = Append(plog, "nodir")
            /\ UNCHANGED files
       ELSE /\ files' = FilterTgz(dirList)
            /\ IF Len(files') = 0
               THEN ppc' = "exit0" /\ plog' = Append(plog, "empty")
               ELSE ppc' = "loop" /\ plog' = Append(plog, "prepare")
    /\ i' = 1
    /\ successCount' = 0 /\ failureCount' = 0 /\ skippedCount' = 0
    /\ UNCHANGED <<codecVars, snapVars, pubEnv, registryContents, packageInfo, isPublished, run,
                   outcomes, prevOutcomes, publishCalls>>

Outcome(tag) == [i |-> i, file |-> files[i], tag |-> tag]

\* lines 102-116: the next file is decoded; an undecodable one is counted as
\* failed and the loop continues with the file after it
LoopDecode ==
    /\ ppc = "loop"
    /\ i <= Len(files)
    /\ packageInfo' = ExtractPackageInfo(files[i].file)
    /\ IF packageInfo' = Null
       THEN /\ failureCount' = failureCount + 1
            /\ i' = i + 1
            /\ ppc' = "loop"
            /\ plog' = Append(plog, "unparsable")
            /\ outcomes' = Append(outcomes, Outcome("failed"))
       ELSE /\ ppc' = "query"
            /\ plog' = Append(plog, "processing")
            /\ UNCHANGED <<failureCount, i, outcomes>>
    /\ UNCHANGED <<codecVars, snapVars, pubEnv, registryContents, files, successCount, skippedCount,
                   isPublished, run, prevOutcomes, publishCalls>>

\* a query whose positive answer is counted but does not skip the publish
QueryNoContinue ==
    /\ ppc = "query"
    /\ \E fault \in Faults :
          isPublished' = IsPackagePublished(packageInfo.name, packageInfo.version, fault)
    /\ IF isPublished'
       THEN /\ skippedCount' = skippedCount + 1
            /\ plog' = Append(plog, "skip")
       ELSE /\ plog' = Append(plog, "publishing")
            /\ UNCHANGED skippedCount
    /\ ppc' = "publish"
    /\ UNCHANGED <<codecVars, snapVars, pubEnv, registryContents, files, successCount, failureCount,
                   packageInfo, run, prevOutcomes, publishCalls, i, outcomes>>

\* lines 118-128: the registry is asked for the exact version; a published
\* version is counted as skipped and the loop continues
Query ==
    /\ ppc = "query"
    /\ \E fault \in Faults :
          isPublished' = IsPackagePublished(packageInfo.name, packageInfo.version, fault)
    /\ IF isPublished'
       THEN /\ skippedCount' = skippedCount + 1
            /\ i' = i + 1
            /\ ppc' = "loop"
            /\ plog' = Append(plog, "skip")
            /\ outcomes' = Append(outcomes, Outcome("skipped"))
       ELSE /\ ppc' = "publish"
            /\ plog' = Append(plog, "publishing")
            /\ UNCHANGED <<skippedCount, i, outcomes>>
    /\ UNCHANGED <<codecVars, snapVars, pubEnv, registryContents, files, successCount, failureCount,
                   packageInfo, run, prevOutcomes, publishCalls>>

\* lines 129-139: npm publish; a failure is caught and counted, and the loop
\* goes on either way
Publish ==
    /\ ppc = "publish"
    /\ publishCalls' = Append(publishCalls, [i |-> i, file |-> files[i], isPublished |-> isPublished])
    /\ \E fault \in Faults :
          IF PublishSucceeds(files[i], fault)
          THEN /\ registryContents' = registryContents \cup {files[i].real}
               /\ successCount' = successCount + 1
               /\ plog' = plog \o <<"published", "separator">>
               /\ outcomes' = Append(outcomes, Outcome("published"))
               /\ UNCHANGED failureCount
          ELSE /\ failureCount' = failureCount + 1
               /\ plog' = plog \o <<"failed", "message", "separator">>
               /\ outcomes' = Append(outcomes, Outcome("failed"))
               /\ UNCHANGED <<registryContents, successCount>>
    /\ i' = i + 1
    /\ ppc' = "loop"
    /\ UNCHANGED <<codecVars, snapVars, pubEnv, files, skippedCount, packageInfo, isPublished, run, prevOutcomes>>

\* lines 142-149: the final tally
LoopEnd ==
    /\ ppc = "loop"
    /\ i > Len(files)
    /\ ppc' = "done"
    /\ plog' = plog \o <<"tally", "total", "success", "skipped", "failed", "finished">>
    /\ UNCHANGED <<codecVars, snapVars, pubEnv, registryContents, files, i, successCount, failureCount,
                   skippedCount, packageInfo, isPublished, run,
                   outcomes, prevOutcomes, publishCalls>>

\* the program is started again over the same directory and registry
RunAgain ==
    /\ ppc = "done"
    /\ run < MaxRuns
    /\ run' = run + 1
    /\ ppc' = "start"
    /\ prevOutcomes' = outcomes
    /\ outcomes' = <<>>
    /\ publishCalls' = <<>>
    /\ packageInfo' = Null
    /\ isPublished' = FALSE
    /\ UNCHANGED <<codecVars, snapVars, pubEnv, registryContents, files, i, successCount, failureCount,
                   skippedCount, plog>>

PubNext == Start \/ MainEnter \/ LoopDecode \/ Query \/ Publish \/ LoopEnd \/ RunAgain

(***************************************************************************)
(* Dependency Snapshotter (src/unnamed/part_000): the file system it reads *)
(***************************************************************************)
MaxDepthArg == 2
DefaultMaxDepth == 10

Unknown == <<"u", "n", "k", "n", "o", "w", "n">>
NameA == <<"a">>
NameSB == <<"@", "s", "/", "b">>
Missing == <<>>

\* what a package.json may hold: Null is a file that is absent or does not
\* parse, Missing a field that is absent
ManifestPool ==
    {Null,
     [name |-> NameA, version |-> V100],
     [name |-> NameA, version |-> V200],
     [name |-> NameSB, version |-> V100],
     [name |-> Missing, version |-> V100]}

\* a directory entry: cls is the class of its name ("ns" starts with '@',
\* "skip" is .bin, .cache or .package-lock.json, "reg" any other), st what
\* statSync answers, slot the manifest it holds (0: none), nm the listing of
\* its node_modules (0: none) or, for a namespace, of the directory itself
E(cls, st, slot, nm) == [cls |-> cls, st |-> st, slot |-> slot, nm |-> nm]

L(readable, entries) == [readable |-> readable, entries |-> entries]

\* nested copies: a chain of three node_modules levels
ShapeNested ==
    [slots |-> 4,
     ls |-> << L(TRUE, <<E("reg", "dir", 1, 0), E("reg", "dir", 2, 2)>>),
               L(TRUE, <<E("reg", "dir", 3, 3)>>),
               L(TRUE, <<E("reg", "dir", 4, 0)>>) >>]

\* a package whose node_modules links back to the root node_modules
ShapeCycle ==
    [slots |-> 3,
     ls |-> << L(TRUE, <<E("reg", "dir", 1, 2), E("skip", "dir", 0, 0)>>),
               L(TRUE, <<E("reg", "dir", 2, 1), E("reg", "dir", 3, 0)>>) >>]

\* a namespace directory with two packages and a plain file
ShapeNamespace ==
    [slots |-> 4,
     ls |-> << L(TRUE, <<E("ns", "dir", 0, 2), E("reg", "dir", 3, 0), E("ns", "file", 0, 0)>>),
               L(TRUE, <<E("reg", "dir", 1, 3), E("reg", "file", 0, 0), E("reg", "dir", 2, 0)>>),
               L(TRUE, <<E("reg", "dir", 4, 0)>>) >>]

\* entries whose stat fails, at the root and one level down
ShapeStatFails ==
    [slots |-> 3,
     ls |-> << L(TRUE, <<E("reg", "dir", 1, 2), E("reg", "err", 0, 0), E("reg", "dir", 2, 0)>>),
               L(TRUE, <<E("reg", "err", 0, 0), E("reg", "dir", 3, 0)>>) >>]

\* failures around namespaces: an unreadable one, one whose stat fails, and
\* one with an entry whose stat fails
ShapeNamespaceFails ==
    [slots |-> 3,
     ls |-> << L(TRUE, <<E("ns", "dir", 0, 2), E("ns", "dir", 0, 3), E("reg", "dir", 1, 0),
                         E("ns", "err", 0, 0), E("reg", "dir", 3, 0)>>),
               L(TRUE, <<E("reg", "err", 0, 0), E("reg", "dir", 2, 0)>>),
               L(FALSE, <<>>) >>]

\* a nested node_modules that exists and cannot be listed
ShapeUnreadable ==
    [slots |-> 2,
     ls |-> << L(TRUE, <<E("reg", "dir", 1, 2), E("reg", "file", 0, 0), E("reg", "dir", 2, 0)>>),
               L(FALSE, <<>>) >>]

Shapes == {ShapeNested, ShapeCycle, ShapeNamespace, ShapeStatFails,
           ShapeNamespaceFails, ShapeUnreadable}

\* the file system a shape and a choice of manifests stand for
Tree(shape, lab) ==
    [d \in 1..Len(shape.ls) |->
        [readable |-> shape.ls[d].readable,
         entries |-> [x \in 1..Len(shape.ls[d].entries) |->
                        LET en == shape.ls[d].entries[x]
                        IN [cls |-> en.cls, st |-> en.st, nm |-> en.nm,
                            man |-> IF en.slot = 0 THEN Null ELSE lab[en.slot]]]]]

ChainLetters == <<"a", "b", "c", "d", "e", "f", "g", "h", "i", "j", "k", "l", "m", "n">>

\* a chain nested two levels deeper than the default maximum depth, every
\* level holding one package of its own
DeepChain ==
    [d \in 1..(DefaultMaxDepth + 2) |->
        [readable |-> TRUE,
         entries |-> << [cls |-> "reg", st |-> "dir",
                         nm |-> IF d < DefaultMaxDepth + 2 THEN d + 1 ELSE 0,
                         man |-> [name |-> <<"p", ChainLetters[d]>>, version |-> V100]] >>]]

Trees ==
    {DeepChain} \cup
    UNION {{Tree(sh, lab) : lab \in [1..sh.slots -> ManifestPool]} : sh \in Shapes}

\* the archive files the output directory may hold before the run
OutPool == {ArchiveName(NameA, V100), ArchiveName(<<"s", "-", "b">>, V100)}

(***************************************************************************)
(* Snapshotter: pure helpers                                               *)
(***************************************************************************)
\* getPackageInfo: null when the manifest cannot be read or parsed, and
\* 'unknown' for a missing name or version
GetPackageInfo(man) ==
    IF man = Null THEN Null
    ELSE [name |-> IF man.name = Missing THEN Unknown ELSE man.name,
          version |-> IF man.version = Missing THEN Unknown ELSE man.version]

\* `${packageInfo.name}@${packageInfo.version}`
PackageKey(info) == info.name \o <<"@">> \o info.version

RECURSIVE Keys(_)
Keys(pkgs) == IF pkgs = <<>> THEN {} ELSE {PackageKey(Head(pkgs))} \cup Keys(Tail(pkgs))

\* a check that looks at the unscoped candidate only
IsPackageAlreadyDownloadedUnscoped(name, version, dir) ==
    GetPossiblePackageFilenames(name, version)[2] \in dir

\* isPackageAlreadyDownloaded: one of the candidate file names exists
IsPackageAlreadyDownloaded(name, version, dir) ==
    \E c \in 1..3 : GetPossiblePackageFilenames(name, version)[c] \in dir

\* the collation localeCompare uses, for the characters of the names
Collation == <<"-", "/", ".", "@", "a", "b", "c", "d", "e", "f", "g", "h", "i", "j", "k",
               "l", "m", "n", "o", "p", "q", "r", "s", "t", "u", "v", "w", "x", "y", "z">>

Rank(c) == CHOOSE r \in 1..Len(Collation) : Collation[r] = c

RECURSIVE NameLess(_, _)
\* a.localeCompare(b) < 0
NameLess(a, b) ==
    IF b = <<>> THEN FALSE
    ELSE IF a = <<>> THEN TRUE
    ELSE IF Head(a) = Head(b) THEN NameLess(Tail(a), Tail(b))
    ELSE Rank(Head(a)) < Rank(Head(b))

RECURSIVE MapByKey(_, _)
\* new Map(packages.map(pkg => [key, pkg])).values(): one entry per key, in
\* the order of the first insertion
MapByKey(pkgs, seen) ==
    IF pkgs = <<>> THEN <<>>
    ELSE IF PackageKey(Head(pkgs)) \in seen
         THEN MapByKey(Tail(pkgs), seen)
         ELSE <<Head(pkgs)>> \o MapByKey(Tail(pkgs), seen \cup {PackageKey(Head(pkgs))})

RECURSIVE InsertByName(_, _)
InsertByName(sorted, pkg) ==
    IF sorted = <<>> THEN <<pkg>>
    ELSE IF NameLess(pkg.name, Head(sorted).name)
         THEN <<pkg>> \o sorted
         ELSE <<Head(sorted)>> \o InsertByName(Tail(sorted), pkg)

RECURSIVE SortByName(_)
\* .sort((a, b) => a.name.localeCompare(b.name)), a stable sort
SortByName(pkgs) ==
    IF pkgs = <<>> THEN <<>>
    ELSE InsertByName(SortByName(SubSeq(pkgs, 1, Len(pkgs) - 1)), pkgs[Len(pkgs)])

\* main, lines 270-272
UniquePackages(pkgs) == SortByName(MapByKey(pkgs, {}))

\* npm pack <name>@<version> names the archive after the package, the scope
\* flattened into the name
NpmPackName(name, version) ==
    ArchiveName(ReplaceFirst(ReplaceFirst(name, "@", <<>>), "/", <<"-">>), version)

(***************************************************************************)
(* Snapshotter: getAllPackages as a machine with an explicit call stack    *)
(***************************************************************************)
\* a call of getAllPackages: its arguments, its local array and its place in
\* the two loops (e over the entries, j over the entries of namespace ns)
NewFrame(dir, depth) ==
    [dir |-> dir, depth |-> depth, pc |-> "enter", e |-> 1, ns |-> 0, j |-> 1,
     packages |-> <<>>]

Top == stack[Len(stack)]

SetTop(f) == [stack EXCEPT ![Len(stack)] = f]

Walking == spc = "walk" /\ stack # <<>>

\* a depth test that lets one more level through
DepthExceededLate(depth) == depth > maxDepth + 1

\* line 58
DepthExceeded(depth) == depth > maxDepth

\* logError: a line is appended to error.log
LogError(line) == errorLog' = Append(errorLog, line)

\* return packages: the caller appends them to its own array (lines 97-98,
\* 124-125); the outermost call hands them to whoever called it
ReturnFrom(pkgs) ==
    IF Len(stack) = 1
    THEN /\ stack' = <<>>
         /\ result' = pkgs
         /\ spc' = IF mode = "main" THEN "afterwalk" ELSE "walked"
    ELSE /\ stack' = [SubSeq(stack, 1, Len(stack) - 1)
                        EXCEPT ![Len(stack) - 1].packages = @ \o pkgs]
         /\ UNCHANGED <<result, spc>>

\* a visit that records the package without asking the visited set
VisitPackageNoCheck(ent, adv) ==
    LET info == GetPackageInfo(ent.man)
    IN IF info = Null
       THEN /\ stack' = SetTop(adv)
            /\ UNCHANGED <<processedPackages, foundDepth>>
       ELSE /\ processedPackages' = processedPackages \cup {PackageKey(info)}
            /\ foundDepth' = foundDepth \cup {<<PackageKey(info), adv.depth>>}
            /\ LET rec == [adv EXCEPT !.packages = Append(@, info)]
               IN stack' = IF ent.nm # 0 /\ PackageKey(info) \notin processedPackages
                           THEN Append(SetTop(rec), NewFrame(ent.nm, adv.depth + 1))
                           ELSE SetTop(rec)

\* lines 85-101 and 112-128: the manifest of a package directory is read; a
\* package not seen before is recorded, marked, and its own node_modules, if
\* there is one, is walked before the loop goes on (adv is the frame with the
\* loop index advanced)
VisitPackage(ent, adv) ==
    LET info == GetPackageInfo(ent.man)
    IN IF info = Null \/ PackageKey(info) \in processedPackages
       THEN /\ stack' = SetTop(adv)
            /\ UNCHANGED <<processedPackages, foundDepth>>
       ELSE /\ processedPackages' = processedPackages \cup {PackageKey(info)}
            /\ foundDepth' = foundDepth \cup {<<PackageKey(info), adv.depth>>}
            /\ LET rec == [adv EXCEPT !.packages = Append(@, info)]
               IN stack' = IF ent.nm # 0
                           THEN Append(SetTop(rec), NewFrame(ent.nm, adv.depth + 1))
                           ELSE SetTop(rec)

\* lines 58-61: beyond the maximum depth the call returns nothing
WalkDepthExceeded ==
    /\ Walking /\ Top.pc = "enter"
    /\ DepthExceeded(Top.depth)
    /\ ReturnFrom(<<>>)
    /\ depthStops' = depthStops + 1
    /\ UNCHANGED <<codecVars, pubVars, snapEnv, outDir, outDirExists, errorLog,
                   processedPackages, foundDepth, examined, packVars>>

\* lines 63-68: a node_modules directory that does not exist
WalkMissing ==
    /\ Walking /\ Top.pc = "enter"
    /\ ~DepthExceeded(Top.depth)
    /\ Top.dir = 0
    /\ ReturnFrom(<<>>)
    /\ UNCHANGED <<codecVars, pubVars, snapEnv, outDir, outDirExists, errorLog,
                   processedPackages, foundDepth, examined, depthStops, packVars>>

\* lines 71-72 and 132-136: the directory is listed; a listing that fails is
\* logged and the call returns its (empty) array
WalkReadDir ==
    /\ Walking /\ Top.pc = "enter"
    /\ ~DepthExceeded(Top.depth)
    /\ Top.dir # 0
    /\ IF fs[Top.dir].readable
       THEN /\ stack' = SetTop([Top EXCEPT !.pc = "loop", !.e = 1])
            /\ UNCHANGED <<result, spc, errorLog>>
       ELSE /\ LogError([what |-> "dir", at |-> Top.dir])
            /\ ReturnFrom(Top.packages)
    /\ UNCHANGED <<codecVars, pubVars, snapEnv, outDir, outDirExists,
                   processedPackages, foundDepth, examined, depthStops, packVars>>

InLoop == Walking /\ Top.pc = "loop" /\ Top.e <= Len(fs[Top.dir].entries)

Entry == fs[Top.dir].entries[Top.e]

NextEntry == [Top EXCEPT !.e = @ + 1]

\* lines 76-107: an entry whose name starts with '@'. A stat that fails is
\* caught by the handler of the whole listing (line 132), a namespace that
\* cannot be listed by the inner handler (line 104)
WalkNamespaceEntry ==
    /\ InLoop /\ Entry.cls = "ns"
    /\ examined' = examined \cup {<<Top.dir, Top.e>>}
    /\ CASE Entry.st = "err" ->
              /\ LogError([what |-> "dir", at |-> Top.dir])
              /\ ReturnFrom(Top.packages)
         [] Entry.st = "file" ->
              /\ stack' = SetTop(NextEntry)
              /\ UNCHANGED <<result, spc, errorLog>>
         [] Entry.st = "dir" /\ ~fs[Entry.nm].readable ->
              /\ LogError([what |-> "namespace", at |-> Entry.nm])
              /\ stack' = SetTop(NextEntry)
              /\ UNCHANGED <<result, spc>>
         [] Entry.st = "dir" /\ fs[Entry.nm].readable ->
              /\ stack' = SetTop([Top EXCEPT !.pc = "nsloop", !.ns = Entry.nm, !.j = 1])
              /\ UNCHANGED <<result, spc, errorLog>>
    /\ UNCHANGED <<codecVars, pubVars, snapEnv, outDir, outDirExists,
                   processedPackages, foundDepth, depthStops, packVars>>

\* line 108: .bin, .cache and .package-lock.json are passed over
WalkSkipEntry ==
    /\ InLoop /\ Entry.cls = "skip"
    /\ examined' = examined \cup {<<Top.dir, Top.e>>}
    /\ stack' = SetTop(NextEntry)
    /\ UNCHANGED <<codecVars, pubVars, snapEnv, outDir, outDirExists, errorLog, spc,
                   processedPackages, result, foundDepth, depthStops, packVars>>

\* lines 108-130: a regular entry; a stat that fails is caught by the handler
\* of the whole listing (line 132), which ends the loop
WalkRegularEntry ==
    /\ InLoop /\ Entry.cls = "reg"
    /\ examined' = examined \cup {<<Top.dir, Top.e>>}
    /\ CASE Entry.st = "err" ->
              /\ LogError([what |-> "dir", at |-> Top.dir])
              /\ ReturnFrom(Top.packages)
              /\ UNCHANGED <<processedPackages, foundDepth>>
         [] Entry.st = "file" ->
              /\ stack' = SetTop(NextEntry)
              /\ UNCHANGED <<result, spc, errorLog, processedPackages, foundDepth>>
         [] Entry.st = "dir" ->
              /\ VisitPackage(Entry, NextEntry)
              /\ UNCHANGED <<result, spc, errorLog>>
    /\ UNCHANGED <<codecVars, pubVars, snapEnv, outDir, outDirExists,
                   depthStops, packVars>>

InNamespace == Walking /\ Top.pc = "nsloop"

NamespaceEntry == fs[Top.ns].entries[Top.j]

NextNamespaceEntry == [Top EXCEPT !.j = @ + 1]

\* lines 82-106: an entry of a namespace directory; a stat that fails is
\* caught by the inner handler (line 104), which ends the inner loop
WalkNamespaceItem ==
    /\ InNamespace /\ Top.j <= Len(fs[Top.ns].entries)
    /\ examined' = examined \cup {<<Top.ns, Top.j>>}
    /\ CASE NamespaceEntry.st = "err" ->
              /\ LogError([what |-> "namespace", at |-> Top.ns])
              /\ stack' = SetTop([Top EXCEPT !.pc = "loop", !.e = @ + 1])
              /\ UNCHANGED <<processedPackages, foundDepth>>
         [] NamespaceEntry.st = "file" ->
              /\ stack' = SetTop(NextNamespaceEntry)
              /\ UNCHANGED <<errorLog, processedPackages, foundDepth>>
         [] NamespaceEntry.st = "dir" ->
              /\ VisitPackage(NamespaceEntry, NextNamespaceEntry)
              /\ UNCHANGED errorLog
    /\ UNCHANGED <<codecVars, pubVars, snapEnv, outDir, outDirExists, spc,
                   result, depthStops, packVars>>

\* the inner loop is over: the outer loop goes on with the next entry
WalkNamespaceEnd ==
    /\ InNamespace /\ Top.j > Len(fs[Top.ns].entries)
    /\ stack' = SetTop([Top EXCEPT !.pc = "loop", !.e = @ + 1])
    /\ UNCHANGED <<codecVars, pubVars, snapEnv, outDir, outDirExists, errorLog, spc,
                   processedPackages, result, foundDepth, examined, depthStops, packVars>>

\* line 136: the listing is exhausted
WalkLoopEnd ==
    /\ Walking /\ Top.pc = "loop" /\ Top.e > Len(fs[Top.dir].entries)
    /\ ReturnFrom(Top.packages)
    /\ UNCHANGED <<codecVars, pubVars, snapEnv, outDir, outDirExists, errorLog,
                   processedPackages, foundDepth, examined, depthStops, packVars>>

(***************************************************************************)
(* Snapshotter: main                                                       *)
(***************************************************************************)
\* lines 239-253: the output directory is created, an old error.log removed
MainStart ==
    /\ spc = "start"
    /\ outDirExists' = TRUE
    /\ errorLog' = <<>>
    /\ spc' = "deps"
    /\ UNCHANGED <<codecVars, pubVars, snapEnv, outDir, walkVars, packVars>>

\* lines 255-258: the project's package.json; without a readable one
\* getProjectDirectDependencies returns {} and line 257 reads the keys of
\* an undefined value, which throws
MainDeps ==
    /\ spc = "deps"
    /\ CASE pkgJson = "ok" -> spc' = "callwalk" /\ UNCHANGED errorLog
         [] pkgJson = "missing" -> spc' = "crashed" /\ UNCHANGED errorLog
         [] pkgJson = "bad" -> spc' = "crashed" /\ LogError([what |-> "package.json", at |-> 0])
    /\ UNCHANGED <<codecVars, pubVars, snapEnv, outDir, outDirExists, walkVars, packVars>>

\* line 262 (and a direct call with a maximum depth of the caller's choice)
CallGetAllPackages ==
    /\ spc = "callwalk"
    /\ stack' = <<NewFrame(IF rootExists THEN 1 ELSE 0, 0)>>
    /\ processedPackages' = {}
    /\ spc' = "walk"
    /\ UNCHANGED <<codecVars, pubVars, snapEnv, outDir, outDirExists, errorLog,
                   result, foundDepth, examined, depthStops, packVars>>

\* a main that writes the summary of an empty result too
MainAfterWalkNoReturn ==
    /\ spc = "afterwalk"
    /\ uniquePackages' = UniquePackages(result)
    /\ summary' = [totalPackages |-> Len(uniquePackages'), packages |-> uniquePackages']
    /\ spc' = "loop"
    /\ index' = 1
    /\ snapSuccessCount' = 0 /\ failCount' = 0 /\ snapSkippedCount' = 0
    /\ UNCHANGED <<codecVars, pubVars, snapEnv, outDir, outDirExists, errorLog,
                   walkVars, packCalls>>

\* lines 264-291: an empty result ends the run; otherwise the list is made
\* unique and sorted and the summary is written
MainAfterWalk ==
    /\ spc = "afterwalk"
    /\ IF Len(result) = 0
       THEN /\ spc' = "returned"
            /\ UNCHANGED <<uniquePackages, summary, index>>
       ELSE /\ uniquePackages' = UniquePackages(result)
            /\ summary' = [totalPackages |-> Len(uniquePackages'), packages |-> uniquePackages']
            /\ spc' = "loop"
            /\ index' = 1
    /\ snapSuccessCount' = 0 /\ failCount' = 0 /\ snapSkippedCount' = 0
    /\ UNCHANGED <<codecVars, pubVars, snapEnv, outDir, outDirExists, errorLog,
                   walkVars, packCalls>>

\* lines 294-308 with createPackageFile (184-207): one package of the list.
\* npm pack may succeed, leaving its archive in the output directory, or fail
\* or time out, which is logged
PackStep ==
    /\ spc = "loop" /\ index <= Len(uniquePackages)
    /\ LET pkg == uniquePackages[index]
       IN IF IsPackageAlreadyDownloaded(pkg.name, pkg.version, outDir)
          THEN /\ snapSkippedCount' = snapSkippedCount + 1
               /\ snapSuccessCount' = snapSuccessCount + 1
               /\ UNCHANGED <<failCount, outDir, errorLog, packCalls>>
          ELSE /\ packCalls' = Append(packCalls, pkg)
               /\ \E ok \in BOOLEAN :
                     IF ok
                     THEN /\ outDir' = outDir \cup {NpmPackName(pkg.name, pkg.version)}
                          /\ snapSuccessCount' = snapSuccessCount + 1
                          /\ UNCHANGED <<failCount, errorLog>>
                     ELSE /\ LogError([what |-> "pack", at |-> index])
                          /\ failCount' = failCount + 1
                          /\ UNCHANGED <<snapSuccessCount, outDir>>
               /\ UNCHANGED snapSkippedCount
    /\ index' = index + 1
    /\ UNCHANGED <<codecVars, pubVars, snapEnv, outDirExists, spc, walkVars,
                   uniquePackages, summary>>

\* lines 310-321: the totals
MainEnd ==
    /\ spc = "loop" /\ index > Len(uniquePackages)
    /\ spc' = "done"
    /\ UNCHANGED <<codecVars, pubVars, snapEnv, outDir, outDirExists, errorLog,
                   walkVars, packVars>>

StaleLog == <<[what |-> "stale", at |-> 0]>>

\* no manifest anywhere
NoManifests == [s \in 1..ShapeUnreadable.slots |-> Null]

\* the Snapshotter not started
SnapIdle ==
    /\ mode = "idle" /\ fs = <<>> /\ rootExists = FALSE /\ maxDepth = 0 /\ pkgJson = "ok"
    /\ outDir = {} /\ outDirExists = FALSE /\ errorLog = <<>> /\ spc = "idle"
    /\ stack = <<>> /\ processedPackages = {} /\ result = <<>>
    /\ foundDepth = {} /\ examined = {} /\ depthStops = 0
    /\ uniquePackages = <<>> /\ summary = Null /\ index = 1
    /\ snapSuccessCount = 0 /\ failCount = 0 /\ snapSkippedCount = 0 /\ packCalls = <<>>

\* nothing walked, nothing packed yet
SnapFresh ==
    /\ outDirExists = (outDir # {})
    /\ stack = <<>> /\ processedPackages = {} /\ result = <<>>
    /\ foundDepth = {} /\ examined = {} /\ depthStops = 0
    /\ uniquePackages = <<>> /\ summary = Null /\ index = 1
    /\ snapSuccessCount = 0 /\ failCount = 0 /\ snapSkippedCount = 0 /\ packCalls = <<>>

\* getAllPackages called on its own, with a maximum depth of the caller's
\* choice
WalkInit ==
    /\ mode = "walk" /\ spc = "callwalk"
    /\ \/ fs \in Trees /\ rootExists = TRUE
       \/ fs = Tree(ShapeUnreadable, NoManifests) /\ rootExists = FALSE
    /\ maxDepth \in 0..MaxDepthArg
    /\ pkgJson = "ok" /\ outDir = {} /\ errorLog = <<>>
    /\ SnapFresh

\* main, which calls getAllPackages with the default maximum depth
SnapInit ==
    /\ mode = "main" /\ spc = "start"
    /\ \/ /\ fs \in Trees /\ rootExists = TRUE
          /\ pkgJson = "ok" /\ outDir \in SUBSET OutPool
       \/ /\ fs = Tree(ShapeUnreadable, NoManifests) /\ rootExists \in BOOLEAN
          /\ pkgJson \in {"ok", "missing", "bad"} /\ outDir = {}
    /\ maxDepth = DefaultMaxDepth
    /\ errorLog = StaleLog
    /\ SnapFresh

WalkNext ==
    \/ CallGetAllPackages
    \/ WalkDepthExceeded \/ WalkMissing \/ WalkReadDir
    \/ WalkNamespaceEntry \/ WalkSkipEntry \/ WalkRegularEntry
    \/ WalkNamespaceItem \/ WalkNamespaceEnd \/ WalkLoopEnd

SnapNext ==
    \/ MainStart \/ MainDeps \/ CallGetAllPackages
    \/ WalkDepthExceeded \/ WalkMissing \/ WalkReadDir
    \/ WalkNamespaceEntry \/ WalkSkipEntry \/ WalkRegularEntry
    \/ WalkNamespaceItem \/ WalkNamespaceEnd \/ WalkLoopEnd
    \/ MainAfterWalk \/ PackStep \/ MainEnd

(***************************************************************************)
(* Specifications                                                          *)
(***************************************************************************)
InitCodec == CodecInit /\ PubIdle /\ SnapIdle

InitPub == CodecIdle /\ PubInit /\ SnapIdle

InitSnap == CodecIdle /\ PubIdle /\ SnapInit

InitWalk == CodecIdle /\ PubIdle /\ WalkInit

\* the codec alone
SpecCodec == InitCodec /\ [][CodecNext]_vars

\* the Publisher, run up to MaxRuns times over one directory and registry
Spec == InitPub /\ [][PubNext]_vars

\* the Snapshotter's main
SpecSnap == InitSnap /\ [][SnapNext]_vars

\* getAllPackages alone; the program is sequential, so a call that can take
\* a step takes it
SpecWalk == InitWalk /\ [][WalkNext]_vars /\ WF_vars(WalkNext)

\* the name ends in '-<digits>.<digits>.<digits>'
NameEndsInTriple(name) ==
    \E p \in 1..Len(name) : name[p] = "-" /\ IsTriple(Tail2(name, p + 1))

\* each candidate file name ends in '-<version>.tgz'
CandidatesCarry(version) ==
    \A k \in 1..Len(cfiles) : EndsWith(cfiles[k], <<"-">> \o version \o TGZ)

\* C7 as stated: for every name and every version of the pattern, the decoded
\* version equals the version in the file name, and every candidate file name
\* built from the decoded identity ends in '-<version>.tgz'.
C7_VersionRoundTrip ==
    /\ cpc # "input" => (cinfo # Null /\ cinfo.version = cversion)
    /\ cpc = "encoded" => CandidatesCarry(cversion)

\* C7 amended: the decoded version equals the version in the file name unless
\* the name ends in '-<digits>.<digits>.<digits>' and the version has no
\* prerelease tag, in which case the decoded version is that triple, a '-' and
\* the version; in every case each candidate file name built from the decoded
\* identity ends in '-<version>.tgz'.
C7_VersionRoundTripAmended ==
    /\ cpc # "input" =>
          /\ cinfo # Null
          /\ IF NameEndsInTriple(cname) /\ IsTriple(cversion)
             THEN \E p \in 1..Len(cname) :
                     /\ cname[p] = "-" /\ IsTriple(Tail2(cname, p + 1))
                     /\ cinfo.version = Tail2(cname, p + 1) \o <<"-">> \o cversion
             ELSE cinfo.version = cversion
    /\ cpc = "encoded" => CandidatesCarry(cversion)

\* a hyphenated name with a prerelease version has been decoded and re-encoded
C7_Witness ==
    /\ cpc = "encoded"
    /\ cname = <<"a", "-", "a">>
    /\ ~IsTriple(cversion)
    /\ cinfo.name = <<"@", "a", "/", "a">>
    /\ cinfo.version = cversion

(***************************************************************************)
(* Publisher claims                                                        *)
(***************************************************************************)
Count(outs, tag) == Cardinality({n \in 1..Len(outs) : outs[n].tag = tag})

\* the directory and the registry of the end-to-end example
EndToEndSetting ==
    /\ reliable
    /\ Len(dirList) = 2
    /\ {dirList[1], dirList[2]} = {LeftPadTgz, AtScopeUtilsTgz}
    /\ registry0 = {Id(LeftPad, V100)}

\* C1: in the end-to-end example (the directory holds left-pad-1.0.0.tgz and
\* @scope-utils-2.3.4.tgz, the registry holds left-pad@1.0.0 only) one run
\* ends with one success, one skip, no failure, and exactly one publish
\* command, for @scope/utils@2.3.4.
C1_EndToEnd ==
    (EndToEndSetting /\ run = 1 /\ ppc = "done") =>
        /\ successCount = 1 /\ skippedCount = 1 /\ failureCount = 0
        /\ Len(publishCalls) = 1
        /\ publishCalls[1].file = AtScopeUtilsTgz

\* C2: with a registry that changes only through successful publishes, the
\* second run over the same directory publishes nothing and counts every
\* file the first run published as skipped.
C2_PublishIdempotent ==
    (reliable /\ run = 2 /\ ppc = "done") =>
        /\ successCount = 0
        /\ \A n \in 1..Len(prevOutcomes) :
              prevOutcomes[n].tag = "published" => outcomes[n].tag = "skipped"

\* C10: every .tgz file of the listing is processed once and in order, a
\* failure never stops the loop, each file adds one to exactly one of the
\* three counters, the counters sum to the number of files at the tally, and
\* the publish command runs only for a file whose name decodes and whose
\* registry query did not answer the exact version.
C10_LoopAccounting ==
    ppc \in {"loop", "query", "publish", "done"} =>
        /\ files = FilterTgz(dirList)
        /\ Len(outcomes) = i - 1
        /\ \A n \in 1..Len(outcomes) : outcomes[n].i = n /\ outcomes[n].file = files[n]
        /\ successCount = Count(outcomes, "published")
        /\ skippedCount = Count(outcomes, "skipped")
        /\ failureCount = Count(outcomes, "failed")
        /\ successCount + skippedCount + failureCount = i - 1
        /\ ppc = "done" => successCount + skippedCount + failureCount = Len(files)
        /\ \A c \in 1..Len(publishCalls) :
              /\ ExtractPackageInfo(publishCalls[c].file.file) # Null
              /\ publishCalls[c].isPublished = FALSE
              /\ \A c2 \in 1..Len(publishCalls) : publishCalls[c2].i = publishCalls[c].i => c2 = c
              /\ publishCalls[c].i <= Len(outcomes) => outcomes[publishCalls[c].i].tag # "skipped"
        /\ \A n \in 1..Len(outcomes) :
              outcomes[n].tag = "published" => \E c \in 1..Len(publishCalls) : publishCalls[c].i = n

\* a run over three files ends after a failed publish on the first file, a
\* skip of the second and a successful publish of the third
C10_Witness ==
    /\ ppc = "done"
    /\ Len(dirList) = 3
    /\ Len(files) = 3
    /\ outcomes[1].tag = "failed" /\ Len(publishCalls) = 2 /\ publishCalls[1].i = 1
    /\ outcomes[2].tag = "skipped"
    /\ outcomes[3].tag = "published"

(***************************************************************************)
(* Snapshotter claims                                                      *)
(***************************************************************************)
Parsable(ent) == GetPackageInfo(ent.man) # Null

EntriesOf(d) == {fs[d].entries[x] : x \in 1..Len(fs[d].entries)}

\* the package directories of a node_modules listing: its regular
\* directories and the directories inside its namespaces
PackageEntriesOf(d) ==
    {en \in EntriesOf(d) : en.cls = "reg" /\ en.st = "dir"}
    \cup UNION {{sub \in EntriesOf(en.nm) : sub.st = "dir"} :
                 en \in {x \in EntriesOf(d) : x.cls = "ns" /\ x.st = "dir"}}

KeysIn(d) == {PackageKey(GetPackageInfo(en.man)) : en \in {x \in PackageEntriesOf(d) : Parsable(x)}}

RECURSIVE DirsAt(_)
\* the node_modules listings at a nesting depth, the root being depth 0
DirsAt(depth) ==
    IF depth = 0 THEN (IF rootExists THEN {1} ELSE {})
    ELSE UNION {{en.nm : en \in {x \in PackageEntriesOf(d) : Parsable(x) /\ x.nm # 0}} :
                   d \in DirsAt(depth - 1)}

KeysWithin(depth) == UNION {KeysIn(d) : d \in UNION {DirsAt(n) : n \in 0..depth}}

AllKeys == KeysWithin(Len(fs))

HasCycle == DirsAt(Len(fs)) # {}

NoReadErrors ==
    \A d \in 1..Len(fs) : fs[d].readable /\ \A en \in EntriesOf(d) : en.st # "err"

WalkDone == spc \in {"walked", "afterwalk", "returned", "loop", "done"}

RECURSIVE FramePackages(_)
FramePackages(stk) ==
    IF stk = <<>> THEN <<>> ELSE Head(stk).packages \o FramePackages(Tail(stk))

\* everything recorded so far: the arrays of the calls in progress, then the
\* returned array
AllRecorded == IF stack # <<>> THEN FramePackages(stack) ELSE result

NoDupKeys(pkgs) ==
    \A a \in 1..Len(pkgs) : \A b \in 1..Len(pkgs) :
        a # b => PackageKey(pkgs[a]) # PackageKey(pkgs[b])

\* every manifest that parses states its name and its version
ManifestsNamed ==
    \A d \in 1..Len(fs) : \A en \in EntriesOf(d) :
        en.man # Null => (en.man.name # Missing /\ en.man.version # Missing)

\* C3: on a tree without read errors and nested no deeper than the maximum
\* depth, every package directory with a parsable manifest (one that states
\* its name and version) has its name@version in the returned set.
C3_WalkComplete ==
    (WalkDone /\ rootExists /\ NoReadErrors /\ ManifestsNamed /\ DirsAt(maxDepth + 1) = {}) =>
        AllKeys \subseteq Keys(result)

C4_Inv ==
    /\ \A n \in 1..Len(stack) :
          /\ stack[n].depth <= maxDepth + 1
          /\ stack[n].pc # "enter" => stack[n].depth <= maxDepth
    /\ \A fd \in foundDepth : fd[2] <= maxDepth
    /\ Keys(AllRecorded) \subseteq KeysWithin(maxDepth)
    /\ Keys(AllRecorded) = {fd[1] : fd \in foundDepth}

\* C4: getAllPackages terminates, also on a cyclic structure, and with
\* maximum depth D it returns only packages found in node_modules
\* directories at depth 0..D, none that is reachable only deeper.
C4_BoundedWalk == []C4_Inv /\ ((spc = "walk") ~> (spc # "walk"))

\* a walk over a cyclic structure has ended, was stopped by the depth limit,
\* and left out a package that lies beyond it
C4_Witness ==
    /\ spc = "walked"
    /\ HasCycle
    /\ depthStops > 0
    /\ ~(AllKeys \subseteq Keys(result))

\* C5: at every point of the walk no name@version is recorded twice and the
\* visited set holds exactly the recorded keys; the list main works on has
\* one entry per key of the result.
C5_Dedup ==
    /\ NoDupKeys(AllRecorded)
    /\ (spc = "walk" \/ WalkDone) => Keys(AllRecorded) = processedPackages
    /\ spc \in {"loop", "done"} =>
          /\ NoDupKeys(uniquePackages)
          /\ Keys(uniquePackages) = Keys(result)
          /\ summary.totalPackages = Cardinality(processedPackages)

A100 == [name |-> NameA, version |-> V100]

SB100 == [name |-> NameSB, version |-> V100]

\* a@1.0.0 is installed at depth 0 and again at depth 1; the walk has ended
\* with one entry for it, and main's list holds it once, after @s/b
C5_Witness ==
    /\ spc = "loop"
    /\ fs = Tree(ShapeNested, <<A100, SB100, A100, Null>>)
    /\ result = <<A100, SB100>>
    /\ uniquePackages = <<SB100, A100>>

\* the primary candidate: the name without '@', '/' turned into '-'
PrimaryCandidate(pkg) ==
    ArchiveName(ReplaceFirst(ReplaceFirst(pkg.name, "@", <<>>), "/", <<"-">>), pkg.version)

\* C6: when the primary candidate file of a package exists as the loop
\* reaches it, npm pack is not run for it and it is counted as a success and
\* as skipped, not as failed.
C6_SkipPolicy ==
    [][(/\ spc = "loop" /\ index <= Len(uniquePackages) /\ index' = index + 1
        /\ PrimaryCandidate(uniquePackages[index]) \in outDir)
       => (/\ packCalls' = packCalls
           /\ outDir' = outDir
           /\ snapSuccessCount' = snapSuccessCount + 1
           /\ snapSkippedCount' = snapSkippedCount + 1
           /\ failCount' = failCount)]_vars

\* the scoped package @s/b came first in the list, its archive s-b-1.0.0.tgz
\* was there, and it was skipped without a pack
C6_Witness ==
    /\ spc = "loop" /\ index = 2
    /\ uniquePackages[1] = SB100
    /\ PrimaryCandidate(SB100) \in outDir
    /\ ArchiveName(<<"b">>, V100) \notin outDir
    /\ packCalls = <<>>
    /\ snapSkippedCount = 1 /\ snapSuccessCount = 1 /\ failCount = 0

Ended == spc \in {"returned", "done", "crashed"}

C9_LocalRecovery ==
    WalkDone =>
        \A ex \in examined :
            fs[ex[1]].entries[ex[2]].st = "err" =>
                /\ \E n \in 1..Len(errorLog) : errorLog[n].what \in {"dir", "namespace"}
                /\ \A b \in (ex[2] + 1)..Len(fs[ex[1]].entries) :
                      LET sib == fs[ex[1]].entries[b]
                      IN /\ <<ex[1], b>> \in examined
                         /\ (sib.cls = "reg" /\ sib.st = "dir" /\ Parsable(sib)) =>
                               PackageKey(GetPackageInfo(sib.man)) \in Keys(result)

====
